---- MODULE Spec2Model ----
(***************************************************************************)
(* A model of the text and section-tree core of knowledge_storm:           *)
(*   ArticleTextProcessing (src/knowledge_storm/utils.py) and              *)
(*   PolishPageModule.merge_polished_sections                              *)
(*   (src/knowledge_storm/storm_md/modules/article_polish.py).             *)
(*                                                                         *)
(* A Python str is a sequence of one-character strings; a dict is a        *)
(* sequence of <<key, value>> pairs with distinct keys, in insertion       *)
(* order.  Every function of the source is an operator computed the way    *)
(* the source computes it; an action calls one function on an input drawn  *)
(* from a bounded set and records what it returned.                        *)
(***************************************************************************)
EXTENDS Integers, Sequences, FiniteSets, TLC

VARIABLES
    pc,       \* "start" before the call, "done" after it
    op,       \* the function the behaviour calls
    input,    \* the arguments of the call, a record named after the parameters
    frame,    \* the local variables of a call that runs in steps (<<>> otherwise)
    heap,     \* the objects a call is given by reference, by object id (<<>> if none)
    output    \* the returned value (<<>> before the call)

vars == <<pc, op, input, frame, heap, output>>

(***************************************************************************)
(* Bounds of the model.                                                    *)
(***************************************************************************)
\* pieces a remap text is built from
MaxRemapPieces == 3
\* pieces a trimmer text is built from
MaxTrimPieces == 4
\* lines of a sanitizer text
MaxSanitizeLines == 3
\* lines of a parser text
MaxParseLines == 3
\* sections of a tree given to the merge
MaxMergeNodes == 3
\* sections of a document given to the citation normalizer
MaxNormalizeNodes == 2
\* pieces the content of such a section is built from
MaxContentPieces == 2

(***************************************************************************)
(* Python str and re primitives.                                           *)
(***************************************************************************)
DigitChars == <<"0", "1", "2", "3", "4", "5", "6", "7", "8", "9">>

Digits == {DigitChars[i] : i \in 1..10}

IsDigit(c) == c \in Digits

\* str(n) for n >= 0
RECURSIVE IntToStr(_)
IntToStr(n) ==
    IF n < 10 THEN <<DigitChars[n + 1]>>
    ELSE IntToStr(n \div 10) \o <<DigitChars[(n % 10) + 1]>>

\* s[i-1:].startswith(p), i counted from 1
StartsWithAt(s, i, p) ==
    /\ i + Len(p) - 1 <= Len(s)
    /\ SubSeq(s, i, i + Len(p) - 1) = p

\* s.startswith(p)
StartsWith(s, p) == StartsWithAt(s, 1, p)

RECURSIVE ReplaceFrom(_, _, _, _)
ReplaceFrom(s, i, old, new) ==
    IF i > Len(s) THEN <<>>
    ELSE IF StartsWithAt(s, i, old)
         THEN new \o ReplaceFrom(s, i + Len(old), old, new)
         ELSE <<s[i]>> \o ReplaceFrom(s, i + 1, old, new)

\* s.replace(old, new), old non-empty: leftmost non-overlapping occurrences
str_replace(s, old, new) == ReplaceFrom(s, 1, old, new)

\* the concatenation of a sequence of strings
RECURSIVE Flatten(_)
Flatten(ss) == IF ss = <<>> THEN <<>> ELSE Head(ss) \o Flatten(Tail(ss))

\* sequences over S of length 0..n
SeqsUpTo(S, n) == UNION {[1..k -> S] : k \in 0..n}

(***************************************************************************)
(* ArticleTextProcessing.update_citation_index                             *)
(***************************************************************************)
\* f"[{n}]"
Marker(n) == <<"[">> \o IntToStr(n) \o <<"]">>

\* f"__PLACEHOLDER_{n}__"
Placeholder(n) ==
    <<"_", "_", "P", "L", "A", "C", "E", "H", "O", "L", "D", "E", "R", "_">>
        \o IntToStr(n) \o <<"_", "_">>

\* first loop: every key's marker becomes the key's placeholder
RECURSIVE MarkersToPlaceholders(_, _, _)
MarkersToPlaceholders(s, citation_map, i) ==
    IF i > Len(citation_map) THEN s
    ELSE MarkersToPlaceholders(
             str_replace(s, Marker(citation_map[i][1]), Placeholder(citation_map[i][1])),
             citation_map, i + 1)

\* second loop: every key's placeholder becomes the value's marker
RECURSIVE PlaceholdersToMarkers(_, _, _)
PlaceholdersToMarkers(s, citation_map, i) ==
    IF i > Len(citation_map) THEN s
    ELSE PlaceholdersToMarkers(
             str_replace(s, Placeholder(citation_map[i][1]), Marker(citation_map[i][2])),
             citation_map, i + 1)

update_citation_index(s, citation_map) ==
    PlaceholdersToMarkers(MarkersToPlaceholders(s, citation_map, 1), citation_map, 1)

(***************************************************************************)
(* Inputs of update_citation_index.                                        *)
(***************************************************************************)
RemapPieces ==
    { <<"a">>, Marker(1), Marker(2), Marker(3),
      <<"_", "_", "P", "L", "A", "C", "E", "H", "O", "L", "D", "E", "R", "_", "1">>,
      <<"_", "_">> }

RemapTexts == {Flatten(ps) : ps \in SeqsUpTo(RemapPieces, MaxRemapPieces)}

RemapKeys == {1, 2}
RemapValues == {1, 2, 3}

\* dicts over RemapKeys: pairs with distinct keys, in every insertion order
CitationMaps ==
    {m \in SeqsUpTo(RemapKeys \X RemapValues, Cardinality(RemapKeys)) :
        \A i, j \in 1..Len(m) : i # j => m[i][1] # m[j][1]}

InitRemap ==
    /\ pc = "start"
    /\ op = "update_citation_index"
    /\ \E s \in RemapTexts, m \in CitationMaps : input = [s |-> s, citation_map |-> m]
    /\ frame = <<>>
    /\ heap = <<>>
    /\ output = <<>>

CallUpdateCitationIndex ==
    /\ pc = "start"
    /\ op = "update_citation_index"
    /\ output' = update_citation_index(input.s, input.citation_map)
    /\ pc' = "done"
    /\ UNCHANGED <<op, input, frame, heap>>

NextRemap == CallUpdateCitationIndex

SpecRemap == InitRemap /\ [][NextRemap]_vars

(***************************************************************************)
(* What a simultaneous substitution of markers gives: read left to right,  *)
(* a marker of a key becomes the marker of the key's value, everything     *)
(* else stays.                                                             *)
(***************************************************************************)
HasKey(m, k) == \E i \in 1..Len(m) : m[i][1] = k
ValueOf(m, k) == m[CHOOSE i \in 1..Len(m) : m[i][1] = k][2]

KeyAt(s, i, m) == {k \in {m[j][1] : j \in 1..Len(m)} : StartsWithAt(s, i, Marker(k))}

RECURSIVE SubstituteFrom(_, _, _)
SubstituteFrom(s, i, m) ==
    IF i > Len(s) THEN <<>>
    ELSE IF KeyAt(s, i, m) # {}
         THEN LET k == CHOOSE k \in KeyAt(s, i, m) : TRUE
              IN  Marker(ValueOf(m, k)) \o SubstituteFrom(s, i + Len(Marker(k)), m)
         ELSE <<s[i]>> \o SubstituteFrom(s, i + 1, m)

SimultaneousSubstitution(s, m) == SubstituteFrom(s, 1, m)

RemapDone == pc = "done" /\ op = "update_citation_index"

\* C1: update_citation_index is a simultaneous substitution: for every text
\* and every map, each marker [old] of a key becomes [map[old]] exactly once,
\* also when keys and values overlap, and nothing else changes.
C1_RemapIsSimultaneousSubstitution ==
    RemapDone => output = SimultaneousSubstitution(input.s, input.citation_map)

\* The same on texts that hold no '_': there the two passes cannot collide.
RemapCorrectWithoutUnderscore ==
    (RemapDone /\ \A i \in 1..Len(input.s) : input.s[i] # "_")
        => output = SimultaneousSubstitution(input.s, input.citation_map)

\* the swap of the specification's example: "a[1]b[2]c" ... under {1:2, 2:1}
RemapSwapReached ==
    /\ RemapDone
    /\ input.s = Marker(1) \o <<"a">> \o Marker(2)
    /\ input.citation_map = <<<<1, 2>>, <<2, 1>>>>
    /\ output = Marker(2) \o <<"a">> \o Marker(1)

(***************************************************************************)
(* More str and re primitives.                                             *)
(***************************************************************************)
\* regex \s and str.strip(): the whitespace of the model's alphabet
SpaceChars == {" ", "\n"}

IsSpace(c) == c \in SpaceChars

\* the end of the longest run of characters of a class (a set of characters)
\* that starts at i (i - 1 when there is none): what a greedy [class]* consumes
RunEnd(s, i, class) ==
    CHOOSE j \in (i - 1)..Len(s) :
        /\ \A k \in i..j : s[k] \in class
        /\ (j = Len(s) \/ s[j + 1] \notin class)

\* int(ds) for a string of digits
RECURSIVE StrToInt(_)
StrToInt(ds) ==
    IF ds = <<>> THEN 0
    ELSE 10 * StrToInt(SubSeq(ds, 1, Len(ds) - 1))
            + ((CHOOSE d \in 1..10 : DigitChars[d] = ds[Len(ds)]) - 1)

RECURSIVE SplitFrom(_, _, _, _)
SplitFrom(s, i, sep, cur) ==
    IF i > Len(s) THEN <<cur>>
    ELSE IF StartsWithAt(s, i, sep)
         THEN <<cur>> \o SplitFrom(s, i + Len(sep), sep, <<>>)
         ELSE SplitFrom(s, i + 1, sep, Append(cur, s[i]))

\* s.split(sep), sep non-empty
str_split(s, sep) == SplitFrom(s, 1, sep, <<>>)

\* sep.join(ss)
RECURSIVE str_join(_, _)
str_join(sep, ss) ==
    IF ss = <<>> THEN <<>>
    ELSE IF Len(ss) = 1 THEN ss[1]
    ELSE ss[1] \o sep \o str_join(sep, Tail(ss))

\* s.strip(): whitespace removed at both ends
str_strip(s) ==
    LET lead == RunEnd(s, 1, SpaceChars)
    IN  IF lead = Len(s) THEN <<>>
        ELSE LET last == CHOOSE j \in 1..Len(s) :
                             /\ ~IsSpace(s[j])
                             /\ \A k \in (j + 1)..Len(s) : IsSpace(s[k])
             IN  SubSeq(s, lead + 1, last)

\* the end of a match of \[\d+\] that starts at i, 0 when there is none
MarkerEnd(s, i) ==
    IF i > Len(s) \/ s[i] # "[" THEN 0
    ELSE LET j == RunEnd(s, i + 1, Digits)
         IN  IF j > i /\ j < Len(s) /\ s[j + 1] = "]" THEN j + 1 ELSE 0

(***************************************************************************)
(* ArticleTextProcessing.remove_uncompleted_sentences_with_citations       *)
(***************************************************************************)
\* the character class [0-9, ]
GroupChars == Digits \cup {",", " "}

\* the end of a match of \[([0-9, ]+)\] that starts at i, 0 when there is none
GroupEnd(s, i) ==
    IF i > Len(s) \/ s[i] # "[" THEN 0
    ELSE LET j == RunEnd(s, i + 1, GroupChars)
         IN  IF j > i /\ j < Len(s) /\ s[j + 1] = "]" THEN j + 1 ELSE 0

\* " ".join(f"[{n}]" for n in match.group(1).split(", "))
replace_with_individual_brackets(group1) ==
    LET numbers == str_split(group1, <<",", " ">>)
    IN  str_join(<<" ">>, [k \in 1..Len(numbers) |-> <<"[">> \o numbers[k] \o <<"]">>])

\* re.sub(r"\[([0-9, ]+)\]", replace_with_individual_brackets, text)
RECURSIVE SplitGroupsFrom(_, _)
SplitGroupsFrom(s, i) ==
    IF i > Len(s) THEN <<>>
    ELSE LET e == GroupEnd(s, i)
         IN  IF e # 0
             THEN replace_with_individual_brackets(SubSeq(s, i + 1, e - 1))
                      \o SplitGroupsFrom(s, e + 1)
             ELSE <<s[i]>> \o SplitGroupsFrom(s, i + 1)

\* re.findall(r"\[\d+\]", s)
RECURSIVE FindMarkersFrom(_, _)
FindMarkersFrom(s, i) ==
    IF i > Len(s) THEN <<>>
    ELSE LET e == MarkerEnd(s, i)
         IN  IF e # 0 THEN <<SubSeq(s, i, e)>> \o FindMarkersFrom(s, e + 1)
             ELSE FindMarkersFrom(s, i + 1)

\* int(x.strip("[]")) of a marker
MarkerInt(x) == StrToInt(SubSeq(x, 2, Len(x) - 1))

\* sorted(a set of markers, key=int): the model's digits have no "0", so no two
\* markers of a set share a key
RECURSIVE SortedByInt(_)
SortedByInt(ms) ==
    IF ms = {} THEN <<>>
    ELSE LET x == CHOOSE x \in ms : \A y \in ms : MarkerInt(x) <= MarkerInt(y)
         IN  <<x>> \o SortedByInt(ms \ {x})

\* "".join(sorted(list(set(re.findall(r"\[\d+\]", citations))), key=...))
deduplicate_group(citations) ==
    LET found == FindMarkersFrom(citations, 1)
    IN  Flatten(SortedByInt({found[k] : k \in 1..Len(found)}))

\* the end of a match of (\[\d+\])+ that starts at i, i - 1 when there is none
RECURSIVE MarkerRunEnd(_, _)
MarkerRunEnd(s, i) ==
    LET e == MarkerEnd(s, i)
    IN  IF e = 0 THEN i - 1 ELSE MarkerRunEnd(s, e + 1)

\* re.sub(r"(\[\d+\])+", deduplicate_group, text)
RECURSIVE DedupGroupsFrom(_, _)
DedupGroupsFrom(s, i) ==
    IF i > Len(s) THEN <<>>
    ELSE LET e == MarkerRunEnd(s, i)
         IN  IF e >= i
             THEN deduplicate_group(SubSeq(s, i, e)) \o DedupGroupsFrom(s, e + 1)
             ELSE <<s[i]>> \o DedupGroupsFrom(s, i + 1)

\* the text after the two re.sub calls
CanonicalCitations(text) == DedupGroupsFrom(SplitGroupsFrom(text, 1), 1)

\* the character class [.!?]
IsTerminator(c) == c \in {".", "!", "?"}

\* the end of the match of ([.!?])\s*(\[\d+\])?\s* whose terminator is at i
EosMatchEnd(s, i) ==
    LET a == RunEnd(s, i + 1, SpaceChars)
        m == MarkerEnd(s, a + 1)
    IN  IF m # 0 THEN RunEnd(s, m + 1, SpaceChars) ELSE a

\* [m.end() for m in re.finditer(eos_pattern, text)], scanning from i
RECURSIVE EosMatchEndsFrom(_, _)
EosMatchEndsFrom(s, i) ==
    IF i > Len(s) THEN <<>>
    ELSE IF IsTerminator(s[i])
         THEN <<EosMatchEnd(s, i)>> \o EosMatchEndsFrom(s, EosMatchEnd(s, i) + 1)
         ELSE EosMatchEndsFrom(s, i + 1)

\* matches[0]: the first match in place of the last
FirstOf(matches) == matches[1]

\* matches[-1]
LastOf(matches) == matches[Len(matches)]

\* text[: last_match.end()].strip()
StripBothEnds(s) == str_strip(s)

remove_uncompleted_sentences_with_citations(text) ==
    LET canon == CanonicalCitations(text)
        matches == EosMatchEndsFrom(canon, 1)
    IN  IF matches # <<>>
        THEN StripBothEnds(SubSeq(canon, 1, LastOf(matches)))
        ELSE canon

(***************************************************************************)
(* Inputs of the trimmer.                                                  *)
(***************************************************************************)
TrimPieces ==
    { <<"a">>, <<".">>, <<"!">>, <<" ">>, Marker(1), Marker(2),
      <<"[", "2", ",", " ", "1", "]">>, <<"[">> }

TrimTexts == {Flatten(ps) : ps \in SeqsUpTo(TrimPieces, MaxTrimPieces)}

InitTrim ==
    /\ pc = "start"
    /\ op = "remove_uncompleted_sentences_with_citations"
    /\ \E t \in TrimTexts : input = [text |-> t]
    /\ frame = <<>>
    /\ heap = <<>>
    /\ output = <<>>

CallRemoveUncompletedSentences ==
    /\ pc = "start"
    /\ op = "remove_uncompleted_sentences_with_citations"
    /\ output' = remove_uncompleted_sentences_with_citations(input.text)
    /\ pc' = "done"
    /\ UNCHANGED <<op, input, frame, heap>>

NextTrim == CallRemoveUncompletedSentences

SpecTrim == InitTrim /\ [][NextTrim]_vars

(***************************************************************************)
(* What the trimmer is to return, stated without the scan: the last        *)
(* terminator of the canonical text, the longest 'whitespace, one marker   *)
(* or none, whitespace' after it, and the text up to there without its     *)
(* outer whitespace.                                                       *)
(***************************************************************************)
TrimDone == pc = "done" /\ op = "remove_uncompleted_sentences_with_citations"

HasTerminator(s) == \E i \in 1..Len(s) : IsTerminator(s[i])

LastTerminator(s) ==
    CHOOSE p \in 1..Len(s) :
        IsTerminator(s[p]) /\ \A q \in (p + 1)..Len(s) : ~IsTerminator(s[q])

IsMarkerText(w) ==
    /\ Len(w) >= 3
    /\ w[1] = "["
    /\ w[Len(w)] = "]"
    /\ \A k \in 2..(Len(w) - 1) : IsDigit(w[k])

IsSentenceTail(w) ==
    \E i \in 0..Len(w), j \in 0..Len(w) :
        /\ i <= j
        /\ \A k \in 1..i : IsSpace(w[k])
        /\ (i = j \/ IsMarkerText(SubSeq(w, i + 1, j)))
        /\ \A k \in (j + 1)..Len(w) : IsSpace(w[k])

LastCompleteEnd(s) ==
    LET p == LastTerminator(s)
    IN  CHOOSE e \in p..Len(s) :
            /\ IsSentenceTail(SubSeq(s, p + 1, e))
            /\ \A f \in (e + 1)..Len(s) : ~IsSentenceTail(SubSeq(s, p + 1, f))

WithoutTrailingSpace(s) ==
    CHOOSE t \in {SubSeq(s, 1, b) : b \in 0..Len(s)} :
        /\ \A k \in (Len(t) + 1)..Len(s) : IsSpace(s[k])
        /\ (t = <<>> \/ ~IsSpace(t[Len(t)]))

WithoutLeadingSpace(s) ==
    CHOOSE t \in {SubSeq(s, a, Len(s)) : a \in 1..(Len(s) + 1)} :
        /\ \A k \in 1..(Len(s) - Len(t)) : IsSpace(s[k])
        /\ (t = <<>> \/ ~IsSpace(t[1]))

CutAtLastComplete(text) ==
    LET canon == CanonicalCitations(text)
    IN  SubSeq(canon, 1, LastCompleteEnd(canon))

\* C7 as claimed: with a terminator in the text, the trimmer returns the
\* canonical text cut at the end of the last 'terminator, whitespace, one
\* marker or none' match, with its trailing whitespace removed.
C7_TrimCutTrailingOnly ==
    (TrimDone /\ HasTerminator(input.text))
        => output = WithoutTrailingSpace(CutAtLastComplete(input.text))

\* C7 as amended: with a terminator in the text, the trimmer returns the
\* canonical text cut at the end of the last 'terminator, whitespace, one
\* marker or none' match, with its leading and its trailing whitespace removed.
C7_TrimCutStripped ==
    (TrimDone /\ HasTerminator(input.text))
        => output = WithoutLeadingSpace(WithoutTrailingSpace(CutAtLastComplete(input.text)))

\* "a.[1]a" is cut to "a.[1]": the unfinished sentence after the marker goes
C7_TrimCutReached ==
    /\ TrimDone
    /\ input.text = <<"a", ".">> \o Marker(1) \o <<"a">>
    /\ output = <<"a", ".">> \o Marker(1)

\* C8: on a text without any terminator the trimmer returns the empty string.
C8_TrimEmptyWithoutTerminator ==
    (TrimDone /\ ~HasTerminator(input.text)) => output = <<>>

(***************************************************************************)
(* ArticleTextProcessing.preprocess_content                                *)
(***************************************************************************)
\* regex \w over the model's alphabet: letters, digits and '_'
WordChars ==
    Digits \cup {"_"} \cup
    {"a", "b", "c", "d", "e", "f", "g", "h", "i", "j", "k", "l", "m",
     "n", "o", "p", "q", "r", "s", "t", "u", "v", "w", "x", "y", "z",
     "A", "B", "C", "D", "E", "F", "G", "H", "I", "J", "K", "L", "M",
     "N", "O", "P", "Q", "R", "S", "T", "U", "V", "W", "X", "Y", "Z"}

NL == <<"\n">>

\* the end of the run of newlines that starts at i (i - 1 when s[i] is none)
NewlineRunEnd(s, i) == RunEnd(s, i, {"\n"})

\* re.split(r"\n{2,}", content)
RECURSIVE SplitParagraphsFrom(_, _, _)
SplitParagraphsFrom(s, i, cur) ==
    IF i > Len(s) THEN <<cur>>
    ELSE LET e == NewlineRunEnd(s, i)
         IN  IF e >= i + 1
             THEN <<cur>> \o SplitParagraphsFrom(s, e + 1, <<>>)
             ELSE SplitParagraphsFrom(s, i + 1, Append(cur, s[i]))

\* paragraph.splitlines(): the pieces between line breaks, without the empty
\* piece after a final line break
str_splitlines(s) ==
    LET parts == str_split(s, NL)
    IN  IF parts[Len(parts)] = <<>> THEN SubSeq(parts, 1, Len(parts) - 1) ELSE parts

\* "|" in line
Contains(line, c) == \E k \in 1..Len(line) : line[k] = c

\* a sanitizer that takes no paragraph for a table
NeverTable(lines) == FALSE

\* any("|" in line for line in lines)
IsTable(lines) == \E k \in 1..Len(lines) : Contains(lines[k], "|")

\* list(dict.fromkeys(lines)): the first occurrence of every line, in order
AppendIfNew(seen, line) ==
    IF \E k \in 1..Len(seen) : seen[k] = line THEN seen ELSE Append(seen, line)

RECURSIVE Dedup(_)
Dedup(lines) ==
    IF lines = <<>> THEN <<>>
    ELSE AppendIfNew(Dedup(SubSeq(lines, 1, Len(lines) - 1)), lines[Len(lines)])

\* [line.strip() for line in lines if line.strip()]
RECURSIVE StripNonBlank(_)
StripNonBlank(lines) ==
    IF lines = <<>> THEN <<>>
    ELSE IF str_strip(Head(lines)) # <<>>
         THEN <<str_strip(Head(lines))>> \o StripNonBlank(Tail(lines))
         ELSE StripNonBlank(Tail(lines))

\* re.sub(r"^\s*[^\w\s]+\s*$", "", line): a line that is only punctuation,
\* with whitespace around it at most, becomes the empty line (and stays in
\* the list)
IsOnlyPunctuation(line) ==
    LET a == RunEnd(line, 1, SpaceChars)
        b == CHOOSE j \in a..Len(line) :
                 /\ \A k \in (a + 1)..j : line[k] \notin (WordChars \cup SpaceChars)
                 /\ (j = Len(line) \/ line[j + 1] \in (WordChars \cup SpaceChars))
    IN  /\ b > a
        /\ \A k \in (b + 1)..Len(line) : IsSpace(line[k])

BlankOrphanedPunctuation(line) == IF IsOnlyPunctuation(line) THEN <<>> ELSE line

\* re.match of one of artifact_patterns, on a line without line breaks
AfterSpace(line) == SubSeq(line, RunEnd(line, 1, SpaceChars) + 1, Len(line))

IsArtifact(line) ==
    LET r == AfterSpace(line)
    IN  \/ StartsWith(r, <<"/", "/">>)
        \/ /\ StartsWith(r, <<"/", "*">>)
           /\ \E k \in 3..(Len(r) - 1) :
                  /\ r[k] = "*" /\ r[k + 1] = "/"
                  /\ \A q \in (k + 2)..Len(r) : IsSpace(r[q])
        \/ StartsWith(r, <<"T", "O", "D", "O", ":">>)
        \/ StartsWith(r, <<"F", "I", "X", "M", "E", ":">>)
        \/ StartsWith(r, <<"D", "E", "B", "U", "G", ":">>)

RECURSIVE DropArtifacts(_)
DropArtifacts(lines) ==
    IF lines = <<>> THEN <<>>
    ELSE IF IsArtifact(Head(lines)) THEN DropArtifacts(Tail(lines))
         ELSE <<Head(lines)>> \o DropArtifacts(Tail(lines))

clean_lines(lines) ==
    LET stripped == StripNonBlank(Dedup(lines))
        blanked == [k \in 1..Len(stripped) |-> BlankOrphanedPunctuation(stripped[k])]
    IN  str_join(<<" ">>, DropArtifacts(blanked))

clean_paragraph(paragraph) ==
    LET lines == str_splitlines(paragraph)
    IN  IF IsTable(lines) THEN str_join(NL, lines) ELSE clean_lines(lines)

\* [clean_paragraph(p) for p in paragraphs if p.strip()]
RECURSIVE CleanNonBlank(_)
CleanNonBlank(paragraphs) ==
    IF paragraphs = <<>> THEN <<>>
    ELSE IF str_strip(Head(paragraphs)) # <<>>
         THEN <<clean_paragraph(Head(paragraphs))>> \o CleanNonBlank(Tail(paragraphs))
         ELSE CleanNonBlank(Tail(paragraphs))

preprocess_content(content) == CleanNonBlank(SplitParagraphsFrom(content, 1, <<>>))

(***************************************************************************)
(* Inputs of the sanitizer: lines, each followed by nothing, a line break  *)
(* or a blank line.                                                        *)
(***************************************************************************)
SanitizeLines == { <<"|", "a">>, <<"a">>, <<".">>, <<" ">>, <<"/", "/", "a">> }

LineEnds == { <<>>, NL, NL \o NL }

SanitizeUnits == {l \o e : l \in SanitizeLines, e \in LineEnds}

SanitizeTexts == {Flatten(us) : us \in SeqsUpTo(SanitizeUnits, MaxSanitizeLines)}

InitSanitize ==
    /\ pc = "start"
    /\ op = "preprocess_content"
    /\ \E c \in SanitizeTexts : input = [content |-> c]
    /\ frame = <<>>
    /\ heap = <<>>
    /\ output = <<>>

CallPreprocessContent ==
    /\ pc = "start"
    /\ op = "preprocess_content"
    /\ output' = preprocess_content(input.content)
    /\ pc' = "done"
    /\ UNCHANGED <<op, input, frame, heap>>

NextSanitize == CallPreprocessContent

SpecSanitize == InitSanitize /\ [][NextSanitize]_vars

(***************************************************************************)
(* The paragraphs of a text, stated on the text itself: the longest spans  *)
(* without a blank-line boundary in them; those with more than whitespace  *)
(* in them are the ones the sanitizer answers, in order.                   *)
(***************************************************************************)
SanitizeDone == pc = "done" /\ op = "preprocess_content"

IsParagraphSpan(s, a, b) ==
    /\ 1 <= a /\ a <= b /\ b <= Len(s)
    /\ \A k \in a..(b - 1) : ~(s[k] = "\n" /\ s[k + 1] = "\n")
    /\ \/ a = 1
       \/ a >= 3 /\ s[a - 1] = "\n" /\ s[a - 2] = "\n" /\ s[a] # "\n"
    /\ \/ b = Len(s)
       \/ b <= Len(s) - 2 /\ s[b + 1] = "\n" /\ s[b + 2] = "\n" /\ s[b] # "\n"
    /\ \E k \in a..b : ~IsSpace(s[k])

ParagraphSpans(s) ==
    {ab \in (1..Len(s)) \X (1..Len(s)) : IsParagraphSpan(s, ab[1], ab[2])}

\* the place of the paragraph that starts at a among the paragraphs of s
ParagraphIndex(s, a) == Cardinality({ab \in ParagraphSpans(s) : ab[1] <= a})

\* a paragraph as its lines separated by line breaks: the paragraph itself,
\* without the line break that ends its last line if it has one
LinesIntact(para) ==
    IF para[Len(para)] = "\n" THEN SubSeq(para, 1, Len(para) - 1) ELSE para

\* C9: every paragraph with a '|' on some line is returned by
\* preprocess_content as one element, at the paragraph's place, holding all
\* of its lines in order, unmodified and separated by line breaks.
C9_TablePreserved ==
    SanitizeDone =>
        LET s == input.content
        IN  /\ Len(output) = Cardinality(ParagraphSpans(s))
            /\ \A ab \in ParagraphSpans(s) :
                   Contains(SubSeq(s, ab[1], ab[2]), "|")
                       => output[ParagraphIndex(s, ab[1])]
                              = LinesIntact(SubSeq(s, ab[1], ab[2]))

\* a table of two equal rows after a paragraph of prose: both rows are kept
C9_TableReached ==
    /\ SanitizeDone
    /\ input.content = <<"a">> \o NL \o NL \o <<"|", "a">> \o NL \o <<"|", "a">>
    /\ output = << <<"a">>, <<"|", "a">> \o NL \o <<"|", "a">> >>

(***************************************************************************)
(* Section trees.  A section is {"content": str, "subsections": dict}; a   *)
(* dict keeps its keys in insertion order, and assigning to a key it has   *)
(* replaces the value where the key stands.                                *)
(***************************************************************************)
EmptySection == [content |-> <<>>, subsections |-> <<>>]

DictHas(d, k) == \E i \in 1..Len(d) : d[i][1] = k

DictIndex(d, k) == CHOOSE i \in 1..Len(d) : d[i][1] = k

DictGet(d, k) == d[DictIndex(d, k)][2]

DictKeys(d) == [i \in 1..Len(d) |-> d[i][1]]

\* d[k] = v
DictSet(d, k, v) ==
    IF DictHas(d, k) THEN [d EXCEPT ![DictIndex(d, k)] = <<k, v>>]
    ELSE Append(d, <<k, v>>)

\* an insertion that leaves a section alone when the title is there already
RECURSIVE KeepSubsection(_, _, _, _)
KeepSubsection(node, path, title, new_section) ==
    IF path = <<>>
    THEN IF DictHas(node.subsections, title) THEN node
         ELSE [node EXCEPT !.subsections = Append(@, <<title, new_section>>)]
    ELSE [node EXCEPT !.subsections =
             DictSet(@, Head(path),
                     KeepSubsection(DictGet(@, Head(path)), Tail(path), title, new_section))]

\* <that node>["subsections"][title] = new_section
RECURSIVE SetSubsection(_, _, _, _)
SetSubsection(node, path, title, new_section) ==
    IF path = <<>>
    THEN [node EXCEPT !.subsections = DictSet(@, title, new_section)]
    ELSE [node EXCEPT !.subsections =
             DictSet(@, Head(path),
                     SetSubsection(DictGet(@, Head(path)), Tail(path), title, new_section))]

\* <that node>["content"] += text
RECURSIVE AddContent(_, _, _)
AddContent(node, path, text) ==
    IF path = <<>>
    THEN [node EXCEPT !.content = @ \o text]
    ELSE [node EXCEPT !.subsections =
             DictSet(@, Head(path), AddContent(DictGet(@, Head(path)), Tail(path), text))]

(***************************************************************************)
(* ArticleTextProcessing.parse_article_into_dict                           *)
(***************************************************************************)
\* line.count("#")
RECURSIVE CountChar(_, _)
CountChar(s, c) ==
    IF s = <<>> THEN 0
    ELSE (IF Head(s) = c THEN 1 ELSE 0) + CountChar(Tail(s), c)

\* s.strip(chars): the characters of a set removed at both ends
StripChars(s, chars) ==
    LET lead == RunEnd(s, 1, chars)
    IN  IF lead = Len(s) THEN <<>>
        ELSE LET last == CHOOSE j \in 1..Len(s) :
                             /\ s[j] \notin chars
                             /\ \A k \in (j + 1)..Len(s) : s[k] \in chars
             IN  SubSeq(s, lead + 1, last)

\* line.startswith("#")
IsHeading(line) == StartsWith(line, <<"#">>)

HeadingLevel(line) == CountChar(line, "#")

\* line.strip("# ").strip()
HeadingTitle(line) == str_strip(StripChars(line, {"#", " "}))

\* the same loop popping on > instead of >= (a heading then stays on the
\* stack under a later heading of its own level)
RECURSIVE PopStrictlyDeeper(_, _)
PopStrictlyDeeper(current_path, level) ==
    IF current_path # <<>> /\ current_path[Len(current_path)][2] > level
    THEN PopStrictlyDeeper(SubSeq(current_path, 1, Len(current_path) - 1), level)
    ELSE current_path

\* while current_path and current_path[-1][1] >= level: current_path.pop()
\* A stack entry is <<path of titles from the root, level>>.
RECURSIVE PopToParent(_, _)
PopToParent(current_path, level) ==
    IF current_path # <<>> /\ current_path[Len(current_path)][2] >= level
    THEN PopToParent(SubSeq(current_path, 1, Len(current_path) - 1), level)
    ELSE current_path

\* the state before the loop
ParseStart == [root |-> EmptySection, current_path |-> << << <<>>, -1 >> >>]

\* one turn of the loop, on a heading; the stack is not empty after the pops
\* (the root's level is -1 and a heading's is at least 1)
ParseHeadingLine(st, line) ==
    LET level == HeadingLevel(line)
        title == HeadingTitle(line)
        popped == PopToParent(st.current_path, level)
        parent == popped[Len(popped)][1]
    IN  [root |-> SetSubsection(st.root, parent, title, EmptySection),
         current_path |-> Append(popped, <<Append(parent, title), level>>)]

\* one turn of the loop, on any other line
ParseTextLine(st, line) ==
    LET top == st.current_path[Len(st.current_path)][1]
    IN  [st EXCEPT !.root = AddContent(@, top, line \o NL \o NL)]

ParseLine(st, line) ==
    IF IsHeading(line) THEN ParseHeadingLine(st, line) ELSE ParseTextLine(st, line)

RECURSIVE ParseLinesFrom(_, _, _)
ParseLinesFrom(cleaned_input, i, st) ==
    IF i > Len(cleaned_input) THEN st
    ELSE ParseLinesFrom(cleaned_input, i + 1, ParseLine(st, cleaned_input[i]))

parse_article_into_dict(input_string) ==
    ParseLinesFrom(preprocess_content(input_string), 1, ParseStart).root.subsections

(***************************************************************************)
(* The parser as it runs: one step per element of cleaned_input.           *)
(***************************************************************************)
ParseLines ==
    { <<"#", " ", "A">>, <<"#", "#", " ", "B">>, <<"#", "#", "#", " ", "B">>,
      <<"#", " ", "B", "#", "1">>, <<"x">>, <<"/", "/", "x">> }

LineBreaks == { NL, NL \o NL }

ParseTexts ==
    {<<>>} \cup
    {l \o Flatten(rest) :
        l \in ParseLines,
        rest \in SeqsUpTo({b \o m : b \in LineBreaks, m \in ParseLines}, MaxParseLines - 1)}

InitParse ==
    /\ pc = "start"
    /\ op = "parse_article_into_dict"
    /\ \E t \in ParseTexts : input = [input_string |-> t]
    /\ frame = <<>>
    /\ heap = <<>>
    /\ output = <<>>

\* ArticleTextProcessing.preprocess_content(input_string), tabulated over the
\* parser's inputs
CleanedInputOf == [t \in ParseTexts |-> preprocess_content(t)]

ParseBegin ==
    /\ pc = "start"
    /\ op = "parse_article_into_dict"
    /\ frame' = [cleaned_input |-> CleanedInputOf[input.input_string],
                 i |-> 1,
                 st |-> ParseStart]
    /\ pc' = "scan"
    /\ UNCHANGED <<op, input, heap, output>>

ParseHeading ==
    /\ pc = "scan"
    /\ frame.i <= Len(frame.cleaned_input)
    /\ IsHeading(frame.cleaned_input[frame.i])
    /\ LET line == frame.cleaned_input[frame.i]
           popped == PopToParent(frame.st.current_path, HeadingLevel(line))
       IN  IF popped = <<>>
           THEN \* current_path[-1] on an empty list: IndexError
                /\ frame' = [frame EXCEPT !.st.current_path = popped]
                /\ pc' = "raised"
           ELSE /\ frame' = [frame EXCEPT !.st = ParseHeadingLine(@, line),
                                          !.i = @ + 1]
                /\ pc' = pc
    /\ UNCHANGED <<op, input, heap, output>>

ParseText ==
    /\ pc = "scan"
    /\ frame.i <= Len(frame.cleaned_input)
    /\ ~IsHeading(frame.cleaned_input[frame.i])
    /\ frame' = [frame EXCEPT !.st = ParseTextLine(@, frame.cleaned_input[frame.i]),
                              !.i = @ + 1]
    /\ UNCHANGED <<pc, op, input, heap, output>>

ParseReturn ==
    /\ pc = "scan"
    /\ frame.i > Len(frame.cleaned_input)
    /\ output' = frame.st.root.subsections
    /\ pc' = "done"
    /\ UNCHANGED <<op, input, frame, heap>>

NextParse == ParseBegin \/ ParseHeading \/ ParseText \/ ParseReturn

SpecParse == InitParse /\ [][NextParse]_vars

\* A call that has started runs on: the interpreter executes the loop's next
\* turn, and the return, without waiting on anything.
SpecParseFair == SpecParse /\ WF_vars(NextParse)

(***************************************************************************)
(* Where the headings of a text belong, stated on the lines of the text:   *)
(* a heading's level is the number of '#' it starts with, its parent the   *)
(* nearest heading before it of a strictly smaller level.                  *)
(***************************************************************************)
ParseDone == pc = "done" /\ op = "parse_article_into_dict"

\* the lines of a text that are not blank
RECURSIVE NonBlank(_)
NonBlank(lines) ==
    IF lines = <<>> THEN <<>>
    ELSE IF str_strip(Head(lines)) = <<>> THEN NonBlank(Tail(lines))
         ELSE <<Head(lines)>> \o NonBlank(Tail(lines))

TextLines(text) == NonBlank(str_split(text, NL))

LeadingHashes(line) == RunEnd(line, 1, {"#"})

TitleOf(line) == str_strip(SubSeq(line, LeadingHashes(line) + 1, Len(line)))

IsHeadingAt(lines, k) == LeadingHashes(lines[k]) >= 1

\* the line of the parent heading of the heading at line k, 0 for the root
ParentLine(lines, k) ==
    LET smaller == {j \in 1..(k - 1) :
                       /\ IsHeadingAt(lines, j)
                       /\ LeadingHashes(lines[j]) < LeadingHashes(lines[k])}
    IN  IF smaller = {} THEN 0 ELSE CHOOSE j \in smaller : \A q \in smaller : q <= j

RECURSIVE PathOfLine(_, _)
PathOfLine(lines, k) ==
    IF k = 0 THEN <<>>
    ELSE Append(PathOfLine(lines, ParentLine(lines, k)), TitleOf(lines[k]))

HeadingLines(lines) == {k \in 1..Len(lines) : IsHeadingAt(lines, k)}

RECURSIVE HasPath(_, _)
HasPath(children, path) ==
    IF path = <<>> THEN TRUE
    ELSE /\ DictHas(children, Head(path))
         /\ HasPath(DictGet(children, Head(path)).subsections, Tail(path))

\* no section is written twice: the headings' paths differ
DistinctPaths(lines) ==
    \A j, k \in HeadingLines(lines) :
        j # k => PathOfLine(lines, j) # PathOfLine(lines, k)

EveryHeadingUnderItsParent(text, tree) ==
    LET lines == TextLines(text)
    IN  DistinctPaths(lines) =>
            \A k \in HeadingLines(lines) : HasPath(tree, PathOfLine(lines, k))

\* "# A\n### B\nx"
DepthSkipText ==
    <<"#", " ", "A">> \o NL \o <<"#", "#", "#", " ", "B">> \o NL \o <<"x">>

\* {A: {B: {content: the body}}}
IsDepthSkipTree(tree) ==
    /\ DictKeys(tree) = << <<"A">> >>
    /\ DictKeys(tree[1][2].subsections) = << <<"B">> >>
    /\ str_strip(tree[1][2].subsections[1][2].content) = <<"x">>
    /\ tree[1][2].subsections[1][2].subsections = <<>>

\* C5: parse_article_into_dict puts every heading under the nearest heading
\* before it of a strictly smaller level, whatever the gap; on
\* "# A\n### B\ntext" (consecutive lines) the tree is A, with B as A's child
\* and the body as B's content.
C5_DepthSkip ==
    ParseDone =>
        /\ EveryHeadingUnderItsParent(input.input_string, output)
        /\ (input.input_string = DepthSkipText => IsDepthSkipTree(output))

\* every line break of the text is a blank line
OnlyBlankLineBreaks(text) ==
    \A k \in 1..Len(text) :
        text[k] = "\n" =>
            \/ k > 1 /\ text[k - 1] = "\n"
            \/ k < Len(text) /\ text[k + 1] = "\n"

\* a line's only '#' are those it starts with
HashesOnlyLead(line) ==
    \A k \in (LeadingHashes(line) + 1)..Len(line) : line[k] # "#"

EveryLineHashesOnlyLead(text) ==
    \A k \in 1..Len(TextLines(text)) : HashesOnlyLead(TextLines(text)[k])

\* The parent rule holds of the texts whose lines are paragraphs of their own
\* and have no '#' after the leading ones.
DepthSkipBetweenBlankLines ==
    (/\ ParseDone
     /\ OnlyBlankLineBreaks(input.input_string)
     /\ EveryLineHashesOnlyLead(input.input_string))
        => EveryHeadingUnderItsParent(input.input_string, output)

DepthSkipBetweenBlankLinesReached ==
    /\ ParseDone
    /\ input.input_string =
           <<"#", " ", "A">> \o NL \o NL \o <<"#", "#", "#", " ", "B">> \o NL \o NL \o <<"x">>
    /\ IsDepthSkipTree(output)

(***************************************************************************)
(* Serialization of a tree (StormArticle.to_string is not part of the      *)
(* sources at hand): depth first, in insertion order, a heading of         *)
(* '#' * depth, a space and the title, then the content, as paragraphs.    *)
(***************************************************************************)
RECURSIVE Hashes(_)
Hashes(n) == IF n = 0 THEN <<>> ELSE <<"#">> \o Hashes(n - 1)

RECURSIVE Serialize(_, _)
Serialize(children, depth) ==
    IF children = <<>> THEN <<>>
    ELSE LET title == children[1][1]
             node == children[1][2]
         IN  Hashes(depth) \o <<" ">> \o title \o NL \o NL
                 \o node.content
                 \o Serialize(node.subsections, depth + 1)
                 \o Serialize(Tail(children), depth)

\* C6: parse(serialize(parse(text))) equals parse(text): same titles, same
\* contents, same order of children at every depth.
C6_RoundTrip ==
    ParseDone => parse_article_into_dict(Serialize(output, 1)) = output

\* The round trip does hold when no paragraph of the text is emptied by the
\* sanitizer, no two lines are joined into a heading and no heading has a '#'
\* after the leading ones.
RoundTripOfPlainParagraphs ==
    (/\ ParseDone
     /\ OnlyBlankLineBreaks(input.input_string)
     /\ EveryLineHashesOnlyLead(input.input_string)
     /\ \A k \in 1..Len(input.input_string) : input.input_string[k] # "/")
        => parse_article_into_dict(Serialize(output, 1)) = output

(***************************************************************************)
(* The section merge engine (StormArticle.insert_or_create_section is not  *)
(* part of the sources at hand; this is the merge of specification         *)
(* section 4.3).  A document and an update are dicts from title to         *)
(* section, as the parser returns them.                                    *)
(***************************************************************************)
KeySet(d) == {d[i][1] : i \in 1..Len(d)}

\* the entries of d whose key is in keys, in d's order
RECURSIVE KeepOnly(_, _)
KeepOnly(d, keys) ==
    IF d = <<>> THEN <<>>
    ELSE IF Head(d)[1] \in keys THEN <<Head(d)>> \o KeepOnly(Tail(d), keys)
         ELSE KeepOnly(Tail(d), keys)

\* a merge that never prunes
PruneNever(children, update_children, trim_children) == children

\* after the overlay: with trim_children, the children whose title the update
\* node does not have are removed
Prune(children, update_children, trim_children) ==
    IF trim_children THEN KeepOnly(children, KeySet(update_children)) ELSE children

\* a merge that keeps the content of a section it already has
KeepOldContent(old, upd) == old.content

\* the content of a section that both have: the update's
OverlaidContent(old, upd) == upd.content

RECURSIVE MergeFrom(_, _, _, _)
\* one title of the update merged into the children of a node
MergeTitle(existing, title, upd, trim_children) ==
    IF DictHas(existing, title)
    THEN LET old == DictGet(existing, title)
             overlaid == MergeFrom(old.subsections, upd.subsections, trim_children, 1)
         IN  DictSet(existing, title,
                     [content |-> OverlaidContent(old, upd),
                      subsections |-> Prune(overlaid, upd.subsections, trim_children)])
    ELSE Append(existing, <<title, upd>>)

\* for each title of the update, from the i-th on, in the update's order
MergeFrom(existing, update, trim_children, i) ==
    IF i > Len(update) THEN existing
    ELSE MergeFrom(MergeTitle(existing, update[i][1], update[i][2], trim_children),
                   update, trim_children, i + 1)

\* a merge that lets the update decide which top-level sections survive too
merge_pruning_top(existing, update, trim_children) ==
    KeepOnly(MergeFrom(existing, update, trim_children, 1), KeySet(update))

\* merge(existing, update, trim_children)
merge(existing, update, trim_children) == MergeFrom(existing, update, trim_children, 1)

(***************************************************************************)
(* Inputs of the merge: every tree of at most MaxMergeNodes sections over  *)
(* two titles; the sections of a document hold "e", those of an update     *)
(* "u".                                                                    *)
(***************************************************************************)
MergeTitles == { <<"A">>, <<"B">> }

RECURSIVE TreesUpTo(_, _)
TreesUpTo(n, c) ==
    IF n = 0 THEN {<<>>}
    ELSE {<<>>} \cup
         UNION { UNION { { << <<t, [content |-> c, subsections |-> k]>> >> \o rest :
                             k \in TreesUpTo(j, c),
                             rest \in {r \in TreesUpTo(n - 1 - j, c) : ~DictHas(r, t)} } :
                         j \in 0..(n - 1) } :
                 t \in MergeTitles }

InitMerge ==
    /\ pc = "start"
    /\ op = "merge"
    /\ \E e \in TreesUpTo(MaxMergeNodes, <<"e">>),
          u \in TreesUpTo(MaxMergeNodes, <<"u">>),
          trim \in BOOLEAN :
           input = [existing |-> e, update |-> u, trim_children |-> trim]
    /\ frame = <<>>
    /\ heap = <<>>
    /\ output = <<>>

CallMerge ==
    /\ pc = "start"
    /\ op = "merge"
    /\ output' = merge(input.existing, input.update, input.trim_children)
    /\ pc' = "done"
    /\ UNCHANGED <<op, input, frame, heap>>

NextMerge == CallMerge

SpecMerge == InitMerge /\ [][NextMerge]_vars

(***************************************************************************)
(* What the merge is to give, stated on the titles and paths of the trees. *)
(***************************************************************************)
MergeDone == pc = "done" /\ op = "merge"

\* the paths of the sections of a tree
RECURSIVE Paths(_)
Paths(children) ==
    UNION { {<<children[i][1]>>} \cup
            {<<children[i][1]>> \o q : q \in Paths(children[i][2].subsections)} :
            i \in 1..Len(children) }

\* the section at a path of the tree
RECURSIVE SectionOf(_, _)
SectionOf(children, path) ==
    IF Len(path) = 1 THEN DictGet(children, path[1])
    ELSE SectionOf(DictGet(children, Head(path)).subsections, Tail(path))

ParentPath(path) == SubSeq(path, 1, Len(path) - 1)

\* C2: for a section the document and the update both have, merge with
\* trim_children leaves it exactly the children the update's node has (the
\* others are pruned); without trim_children it has its own children and the
\* update's, those of the update with the update's content, the others with
\* their content and subtree unchanged.
C2_MergeTrim ==
    MergeDone =>
        \A title \in KeySet(input.existing) \cap KeySet(input.update) :
            LET e == DictGet(input.existing, title).subsections
                u == DictGet(input.update, title).subsections
                r == DictGet(output, title).subsections
            IN  /\ input.trim_children => KeySet(r) = KeySet(u)
                /\ ~input.trim_children => KeySet(r) = KeySet(e) \cup KeySet(u)
                /\ \A a \in KeySet(r) \cap KeySet(u) :
                       DictGet(r, a).content = DictGet(u, a).content
                /\ \A b \in KeySet(r) \ KeySet(u) : DictGet(r, b) = DictGet(e, b)

\* children {A, B}, update children {A}, trim_children: exactly {A} is left
C2_PrunedReached ==
    /\ MergeDone
    /\ input.trim_children
    /\ DictKeys(input.existing) = << <<"A">> >>
    /\ DictKeys(input.update) = << <<"A">> >>
    /\ DictKeys(input.existing[1][2].subsections) = << <<"A">>, <<"B">> >>
    /\ DictKeys(input.update[1][2].subsections) = << <<"A">> >>
    /\ DictKeys(output[1][2].subsections) = << <<"A">> >>

\* C3: merging an empty update without trim_children returns the document as
\* it was: same titles, contents and order of children at every depth.
C3_MergeIdentity ==
    (MergeDone /\ input.update = <<>> /\ ~input.trim_children)
        => output = input.existing

\* a document of three sections, one of them nested, and an empty update
C3_IdentityReached ==
    /\ MergeDone
    /\ input.update = <<>>
    /\ ~input.trim_children
    /\ Cardinality(Paths(input.existing)) = 3
    /\ \E p \in Paths(input.existing) : Len(p) = 2
    /\ output = input.existing

\* C4: merge is a deep overlay by title: every section of the update is in
\* the result at its path with the update's content; a section of the update
\* whose parent the document has (or that is top-level) while it does not have
\* the section itself is inserted with its whole subtree; and without
\* trim_children every section the update does not name stays as it was.
C4_DeepOverlay ==
    MergeDone =>
        /\ \A p \in Paths(input.update) :
               /\ p \in Paths(output)
               /\ SectionOf(output, p).content = SectionOf(input.update, p).content
        /\ \A p \in Paths(input.update) \ Paths(input.existing) :
               (Len(p) = 1 \/ ParentPath(p) \in Paths(input.existing))
                   => SectionOf(output, p) = SectionOf(input.update, p)
        /\ ~input.trim_children =>
               \A p \in Paths(input.existing) \ Paths(input.update) :
                   /\ p \in Paths(output)
                   /\ SectionOf(output, p).content = SectionOf(input.existing, p).content

\* an update that overlays a nested section (A/B) and inserts a new one (B)
C4_OverlayReached ==
    /\ MergeDone
    /\ <<<<"A">>, <<"B">>>> \in Paths(input.existing) \cap Paths(input.update)
    /\ <<<<"B">>>> \in Paths(input.update) \ Paths(input.existing)
    /\ SectionOf(output, <<<<"A">>, <<"B">>>>).content = <<"u">>
    /\ SectionOf(output, <<<<"B">>>>) = SectionOf(input.update, <<<<"B">>>>)

(***************************************************************************)
(* ArticleTextProcessing.parse_citation_indices                            *)
(***************************************************************************)
\* [int(index[1:-1]) for index in re.findall(r"\[\d+\]", s)]
parse_citation_indices(s) ==
    LET matches == FindMarkersFrom(s, 1)
    IN  [k \in 1..Len(matches) |-> MarkerInt(matches[k])]

(***************************************************************************)
(* The citation normalization pass over a document (the pass that          *)
(* StormArticle.post_processing runs is not part of the sources at hand;   *)
(* this is the renumbering of specification sections 4.3 and 4.4): the     *)
(* indices of the whole tree, in reading order, are renumbered 1, 2, ...   *)
(* by first appearance, with parse_citation_indices and                    *)
(* update_citation_index on every content.                                 *)
(***************************************************************************)
\* the contents of a tree, depth first in insertion order
RECURSIVE PreOrderContents(_)
PreOrderContents(children) ==
    IF children = <<>> THEN <<>>
    ELSE <<children[1][2].content>>
             \o PreOrderContents(children[1][2].subsections)
             \o PreOrderContents(Tail(children))

\* the indices of a sequence of contents, in order
RECURSIVE IndicesOf(_)
IndicesOf(contents) ==
    IF contents = <<>> THEN <<>>
    ELSE parse_citation_indices(Head(contents)) \o IndicesOf(Tail(contents))

\* old index -> 1, 2, ... in the order of first appearance
RECURSIVE FirstAppearanceMap(_)
FirstAppearanceMap(indices) ==
    IF indices = <<>> THEN <<>>
    ELSE LET m == FirstAppearanceMap(SubSeq(indices, 1, Len(indices) - 1))
             last == indices[Len(indices)]
         IN  IF HasKey(m, last) THEN m ELSE Append(m, <<last, Len(m) + 1>>)

\* every content of the tree rewritten under the map
RECURSIVE RemapContents(_, _)
RemapContents(children, m) ==
    [i \in 1..Len(children) |->
        <<children[i][1],
          [content |-> update_citation_index(children[i][2].content, m),
           subsections |-> RemapContents(children[i][2].subsections, m)]>>]

normalize_citations(doc) ==
    RemapContents(doc, FirstAppearanceMap(IndicesOf(PreOrderContents(doc))))

(***************************************************************************)
(* Inputs of the normalizer.                                               *)
(***************************************************************************)
ContentPieces ==
    { <<"a">>, Marker(1), Marker(2), Marker(3), Placeholder(1) }

Contents == {Flatten(ps) : ps \in SeqsUpTo(ContentPieces, MaxContentPieces)}

RECURSIVE DocsUpTo(_)
DocsUpTo(n) ==
    IF n = 0 THEN {<<>>}
    ELSE {<<>>} \cup
         UNION { UNION { { << <<t, [content |-> c, subsections |-> k]>> >> \o rest :
                             c \in Contents,
                             k \in DocsUpTo(j),
                             rest \in {r \in DocsUpTo(n - 1 - j) : ~DictHas(r, t)} } :
                         j \in 0..(n - 1) } :
                 t \in MergeTitles }

InitNormalize ==
    /\ pc = "start"
    /\ op = "normalize_citations"
    /\ \E d \in DocsUpTo(MaxNormalizeNodes) : input = [doc |-> d]
    /\ frame = <<>>
    /\ heap = <<>>
    /\ output = <<>>

CallNormalizeCitations ==
    /\ pc = "start"
    /\ op = "normalize_citations"
    /\ output' = normalize_citations(input.doc)
    /\ pc' = "done"
    /\ UNCHANGED <<op, input, frame, heap>>

NextNormalize == CallNormalizeCitations

SpecNormalize == InitNormalize /\ [][NextNormalize]_vars

NormalizeDone == pc = "done" /\ op = "normalize_citations"

\* C10: normalizing a normalized document changes nothing:
\* normalize_citations(normalize_citations(doc)) = normalize_citations(doc).
C10_NormalizeIdempotent ==
    NormalizeDone => normalize_citations(output) = output

\* Idempotence does hold of the documents whose contents hold no '_'.
NormalizeIdempotentWithoutUnderscore ==
    (/\ NormalizeDone
     /\ \A c \in {PreOrderContents(input.doc)[k] : k \in 1..Len(PreOrderContents(input.doc))} :
            \A i \in 1..Len(c) : c[i] # "_")
        => normalize_citations(output) = output

\* two sections citing [3] then [1][3] are renumbered [1] then [2][1]
NormalizeRenumberReached ==
    /\ NormalizeDone
    /\ PreOrderContents(input.doc) = << Marker(3), Marker(1) \o Marker(3) >>
    /\ PreOrderContents(output) = << Marker(1), Marker(2) \o Marker(1) >>

(***************************************************************************)
(* The parser's stack while it scans.                                      *)
(***************************************************************************)
\* the virtual root at the bottom, levels strictly increasing upwards
StackWellFormed(current_path) ==
    /\ current_path # <<>>
    /\ current_path[1] = << <<>>, -1 >>
    /\ \A k \in 1..(Len(current_path) - 1) : current_path[k][2] < current_path[k + 1][2]

ParseNeverRaises == pc # "raised"

ParseStackWellFormed ==
    (op = "parse_article_into_dict" /\ pc \in {"scan", "done"})
        => /\ StackWellFormed(frame.st.current_path)
           /\ frame.i <= Len(frame.cleaned_input) + 1

\* C11: parse_article_into_dict is total: on every input it never raises and
\* it returns; at every step of the scan the (node, level) stack is not
\* empty, the virtual root (level -1) is at its bottom, and the levels
\* strictly increase from bottom to top.
C11_ParseTotal ==
    /\ [](ParseNeverRaises /\ ParseStackWellFormed)
    /\ <>ParseDone

\* "# A\n\n### B\n\n## B": the third heading pops the second and is pushed
\* on the first
C11_PopReached ==
    /\ ParseDone
    /\ input.input_string =
           <<"#", " ", "A">> \o NL \o NL \o <<"#", "#", "#", " ", "B">>
               \o NL \o NL \o <<"#", "#", " ", "B">>
    /\ frame.st.current_path =
           << << <<>>, -1 >>, << << <<"A">> >>, 1 >>, << << <<"A">>, <<"B">> >>, 2 >> >>

(***************************************************************************)
(* PolishPageModule.merge_polished_sections.  The draft article is an      *)
(* object: the call is given a reference to it, the two methods it calls   *)
(* change the object in place, and the reference is what it returns.  The  *)
(* state of the object is its section tree.                                *)
(***************************************************************************)
\* lines of a polished text
MaxPolishLines == 2

PolishLines == { <<"#", " ", "A">>, <<"#", "#", " ", "B">>, Marker(3) }

PolishTexts ==
    {<<>>} \cup
    {l \o Flatten(rest) :
        l \in PolishLines,
        rest \in SeqsUpTo({b \o m : b \in LineBreaks, m \in PolishLines}, MaxPolishLines - 1)}

PolishContents == { <<>>, Marker(2) }

\* the section trees of at most n sections over MergeTitles and PolishContents
RECURSIVE ArticlesUpTo(_)
ArticlesUpTo(n) ==
    IF n = 0 THEN {<<>>}
    ELSE {<<>>} \cup
         UNION { UNION { { << <<t, [content |-> c, subsections |-> k]>> >> \o rest :
                             c \in PolishContents,
                             k \in ArticlesUpTo(j),
                             rest \in {r \in ArticlesUpTo(n - 1 - j) : ~DictHas(r, t)} } :
                         j \in 0..(n - 1) } :
                 t \in MergeTitles }

\* the draft article is object 1 of the heap; article_at_call keeps what it
\* held when the call was made
InitPolish ==
    /\ pc = "start"
    /\ op = "merge_polished_sections"
    /\ \E a \in ArticlesUpTo(MaxNormalizeNodes), t \in PolishTexts :
           /\ heap = << a >>
           /\ input = [draft_article |-> 1, polished_sections |-> t, article_at_call |-> a]
    /\ frame = <<>>
    /\ output = <<>>

\* polished_dict = ArticleTextProcessing.parse_article_into_dict(polished_sections)
PolishParse ==
    /\ pc = "start"
    /\ op = "merge_polished_sections"
    /\ frame' = [polished_dict |-> parse_article_into_dict(input.polished_sections)]
    /\ pc' = "parsed"
    /\ UNCHANGED <<op, input, heap, output>>

\* draft_article.insert_or_create_section(article_dict=polished_dict, trim_children=True)
PolishMerge ==
    /\ pc = "parsed"
    /\ op = "merge_polished_sections"
    /\ heap' = [heap EXCEPT ![input.draft_article] = merge(@, frame.polished_dict, TRUE)]
    /\ pc' = "merged"
    /\ UNCHANGED <<op, input, frame, output>>

\* a polish that goes on without the post-processing pass
PolishSkipPostProcess ==
    /\ pc = "merged"
    /\ op = "merge_polished_sections"
    /\ pc' = "post_processed"
    /\ UNCHANGED <<op, input, frame, heap, output>>

\* draft_article.post_processing()
PolishPostProcess ==
    /\ pc = "merged"
    /\ op = "merge_polished_sections"
    /\ heap' = [heap EXCEPT ![input.draft_article] = normalize_citations(@)]
    /\ pc' = "post_processed"
    /\ UNCHANGED <<op, input, frame, output>>

\* return draft_article
PolishReturn ==
    /\ pc = "post_processed"
    /\ op = "merge_polished_sections"
    /\ output' = input.draft_article
    /\ pc' = "done"
    /\ UNCHANGED <<op, input, frame, heap>>

NextPolish == PolishParse \/ PolishMerge \/ PolishPostProcess \/ PolishReturn

SpecPolish == InitPolish /\ [][NextPolish]_vars

PolishDone == pc = "done" /\ op = "merge_polished_sections"

\* what a step that reaches each point of the call has done
PolishStepsInOrder ==
    op = "merge_polished_sections" =>
        /\ pc' = "parsed" =>
               /\ pc = "start"
               /\ frame'.polished_dict = parse_article_into_dict(input.polished_sections)
               /\ heap' = heap
        /\ pc' = "merged" =>
               /\ pc = "parsed"
               /\ heap' = << merge(heap[input.draft_article], frame.polished_dict, TRUE) >>
        /\ pc' = "post_processed" =>
               /\ pc = "merged"
               /\ heap' = << normalize_citations(heap[input.draft_article]) >>
        /\ pc' = "done" =>
               /\ pc = "post_processed"
               /\ heap' = heap
               /\ output' = input.draft_article

\* nothing is returned before the call is done; what is returned is the
\* reference the call was given, and the object then holds the normalized
\* merge of the parsed text into what it held at the call
PolishReturnsTheDraft ==
    op = "merge_polished_sections" =>
        /\ pc # "done" => output = <<>>
        /\ pc = "done" =>
               /\ output = input.draft_article
               /\ heap[output] =
                      normalize_citations(
                          merge(input.article_at_call,
                                parse_article_into_dict(input.polished_sections), TRUE))

\* C12: merge_polished_sections always performs, in this order, the parse of
\* the polished text into a tree fragment, the merge of the fragment into the
\* draft article with trim_children=True, and the post-processing pass over
\* the whole article; it returns only after the third step, and what it
\* returns is the draft article it was given, changed in place.
C12_PolishOrder == [][PolishStepsInOrder]_vars /\ []PolishReturnsTheDraft

\* A with content [2] and a child B, polished with "# A\n\n[3]": B is pruned,
\* A's content is replaced, and the citation is renumbered [1]
C12_PolishedReached ==
    /\ PolishDone
    /\ input.article_at_call =
           << << <<"A">>, [content |-> Marker(2),
                           subsections |-> << << <<"B">>, EmptySection >> >>] >> >>
    /\ input.polished_sections = <<"#", " ", "A">> \o NL \o NL \o Marker(3)
    /\ heap[output] =
           << << <<"A">>, [content |-> Marker(1) \o NL \o NL, subsections |-> <<>>] >> >>

(***************************************************************************)
(* The level and the title the parser gives a heading.                     *)
(***************************************************************************)
\* the element the last turn of the loop has read
LastScanned == frame.cleaned_input[frame.i - 1]

\* the entry the last turn of the loop has pushed
StackTop == frame.st.current_path[Len(frame.st.current_path)]

AfterHeadingTurn ==
    /\ op = "parse_article_into_dict"
    /\ pc = "scan"
    /\ frame.i > 1
    /\ IsHeading(LastScanned)

\* the rest of a line after its leading '#', with '#' and the whitespace
\* around trimmed
TrimmedTitle(line) ==
    str_strip(StripChars(SubSeq(line, LeadingHashes(line) + 1, Len(line)), {"#", " "}))

\* C13: for every heading line the parser's level is the number of '#' the
\* line starts with (a '#' later in the line does not change it), and the
\* title is the rest of the line with '#' and surrounding whitespace trimmed.
C13_LevelIsLeadingHashes ==
    AfterHeadingTurn =>
        /\ StackTop[2] = LeadingHashes(LastScanned)
        /\ StackTop[1][Len(StackTop[1])] = TrimmedTitle(LastScanned)

\* Both hold of the headings whose only '#' are the leading ones.
LevelOfHeadingsWithoutLaterHash ==
    (AfterHeadingTurn /\ HashesOnlyLead(LastScanned)) =>
        /\ StackTop[2] = LeadingHashes(LastScanned)
        /\ StackTop[1][Len(StackTop[1])] = TrimmedTitle(LastScanned)

\* "# A\n\n# B#1": the second heading is pushed with level 2, as A's child
LevelCountsLaterHashReached ==
    /\ ParseDone
    /\ input.input_string =
           <<"#", " ", "A">> \o NL \o NL \o <<"#", " ", "B", "#", "1">>
    /\ StackTop = << << <<"A">>, <<"B", "#", "1">> >>, 2 >>
    /\ output = << << <<"A">>,
                      [content |-> <<>>,
                       subsections |-> << << <<"B", "#", "1">>, EmptySection >> >>] >> >>

(***************************************************************************)
(* Headings written twice.  Stated on the elements the parser scans, with  *)
(* the parser's own level and title of each heading: the parent of a       *)
(* heading is the nearest heading before it of a strictly smaller level,   *)
(* and the block of a heading runs up to the next heading of a level not   *)
(* above its own.                                                          *)
(***************************************************************************)
ElemHeadings(elems) == {k \in 1..Len(elems) : IsHeading(elems[k])}

\* the place of the parent heading of the heading at k, 0 for the root
ElemParent(elems, k) ==
    LET smaller == {j \in ElemHeadings(elems) :
                       j < k /\ HeadingLevel(elems[j]) < HeadingLevel(elems[k])}
    IN  IF smaller = {} THEN 0 ELSE CHOOSE j \in smaller : \A q \in smaller : q <= j

RECURSIVE ElemPath(_, _)
ElemPath(elems, k) ==
    IF k = 0 THEN <<>>
    ELSE Append(ElemPath(elems, ElemParent(elems, k)), HeadingTitle(elems[k]))

\* a later heading has the same title under the same parent
Overwritten(elems, k) ==
    \E j \in ElemHeadings(elems) : j > k /\ ElemPath(elems, j) = ElemPath(elems, k)

\* the last element of the block of the heading at k
BlockEnd(elems, k) ==
    LET closing == {j \in ElemHeadings(elems) :
                       j > k /\ HeadingLevel(elems[j]) <= HeadingLevel(elems[k])}
    IN  IF closing = {} THEN Len(elems)
        ELSE (CHOOSE j \in closing : \A q \in closing : j <= q) - 1

InOverwrittenBlock(elems, i) ==
    \E k \in ElemHeadings(elems) :
        Overwritten(elems, k) /\ k <= i /\ i <= BlockEnd(elems, k)

\* the elements outside the blocks of the overwritten headings, in order
RECURSIVE WithoutOverwrittenFrom(_, _)
WithoutOverwrittenFrom(elems, i) ==
    IF i > Len(elems) THEN <<>>
    ELSE IF InOverwrittenBlock(elems, i) THEN WithoutOverwrittenFrom(elems, i + 1)
         ELSE <<elems[i]>> \o WithoutOverwrittenFrom(elems, i + 1)

\* the same sections with the same contents, whatever the order of siblings
SameSections(t1, t2) ==
    /\ Paths(t1) = Paths(t2)
    /\ \A p \in Paths(t1) : SectionOf(t1, p).content = SectionOf(t2, p).content

\* C14: when two headings with the same title resolve to the same parent,
\* the later one overwrites the earlier: the tree is the one the text gives
\* without the earlier heading, its content and its subtree, so the section
\* holds only the content and children that follow the last occurrence.
C14_LastWriteWins ==
    ParseDone =>
        LET elems == frame.cleaned_input
            kept == WithoutOverwrittenFrom(elems, 1)
        IN  SameSections(output, ParseLinesFrom(kept, 1, ParseStart).root.subsections)

\* "# A\n\n## B\n\n# A": the second A replaces the first and its child B
C14_OverwriteReached ==
    /\ ParseDone
    /\ input.input_string =
           <<"#", " ", "A">> \o NL \o NL \o <<"#", "#", " ", "B">>
               \o NL \o NL \o <<"#", " ", "A">>
    /\ Overwritten(frame.cleaned_input, 1)
    /\ WithoutOverwrittenFrom(frame.cleaned_input, 1) = << <<"#", " ", "A">> >>
    /\ output = << << <<"A">>, EmptySection >> >>

(***************************************************************************)
(* What the sanitizer is to make of a paragraph that is not a table: the   *)
(* lines that are neither blank, only punctuation nor an artifact, each    *)
(* once, in first-seen order, with single spaces between them.             *)
(***************************************************************************)
Survives(line) ==
    /\ str_strip(line) # <<>>
    /\ ~IsOnlyPunctuation(line)
    /\ ~IsArtifact(line)

RECURSIVE SurvivingLines(_)
SurvivingLines(lines) ==
    IF lines = <<>> THEN <<>>
    ELSE IF Survives(Head(lines))
         THEN <<str_strip(Head(lines))>> \o SurvivingLines(Tail(lines))
         ELSE SurvivingLines(Tail(lines))

JoinedSurvivors(para) ==
    str_join(<<" ">>, SurvivingLines(Dedup(str_splitlines(para))))

HasPunctuationLine(para) ==
    \E k \in 1..Len(str_splitlines(para)) : IsOnlyPunctuation(str_splitlines(para)[k])

\* C15: of a paragraph that is not a table, the blank lines, the lines that
\* are only punctuation and the artifact lines (//, /* */, TODO:, FIXME:,
\* DEBUG:) contribute nothing to the output; the surviving lines appear in
\* first-seen order separated by exactly one space, with no leading,
\* trailing or doubled space where a line was removed.
C15_SurvivorsJoinedBySingleSpaces ==
    SanitizeDone =>
        LET s == input.content
        IN  \A ab \in ParagraphSpans(s) :
                ~Contains(SubSeq(s, ab[1], ab[2]), "|")
                    => output[ParagraphIndex(s, ab[1])]
                           = JoinedSurvivors(SubSeq(s, ab[1], ab[2]))

\* It holds of the paragraphs without a line that is only punctuation.
SurvivorsJoinedWithoutPunctuationLines ==
    SanitizeDone =>
        LET s == input.content
        IN  \A ab \in ParagraphSpans(s) :
                (/\ ~Contains(SubSeq(s, ab[1], ab[2]), "|")
                 /\ ~HasPunctuationLine(SubSeq(s, ab[1], ab[2])))
                    => output[ParagraphIndex(s, ab[1])]
                           = JoinedSurvivors(SubSeq(s, ab[1], ab[2]))

\* "a\n.\n//a": the artifact line is dropped, the punctuation line leaves
\* its space behind
PunctuationLineLeavesSpaceReached ==
    /\ SanitizeDone
    /\ input.content = <<"a">> \o NL \o <<".">> \o NL \o <<"/", "/", "a">>
    /\ output = << <<"a", " ">> >>

(***************************************************************************)
(* The canonical form of the citations of a text: groups split into        *)
(* individual markers, and every run of markers that follow one another    *)
(* directly sorted and without repetition.                                 *)
(***************************************************************************)
\* every bracket of digits, commas and spaces is an individual marker
NoGroupLeft(s) ==
    \A i \in 1..Len(s) : GroupEnd(s, i) # 0 => MarkerEnd(s, i) = GroupEnd(s, i)

\* of two markers that follow one another directly the second index is larger
RunsAscending(s) ==
    \A i \in 1..Len(s) :
        (MarkerEnd(s, i) # 0 /\ MarkerEnd(s, MarkerEnd(s, i) + 1) # 0)
            => MarkerInt(SubSeq(s, i, MarkerEnd(s, i)))
                   < MarkerInt(SubSeq(s, MarkerEnd(s, i) + 1,
                                      MarkerEnd(s, MarkerEnd(s, i) + 1)))

\* [a, b, c] as [a][b][c]
AdjacentBrackets(group1) ==
    LET numbers == str_split(group1, <<",", " ">>)
    IN  Flatten([k \in 1..Len(numbers) |-> <<"[">> \o numbers[k] \o <<"]">>])

RECURSIVE SplitGroupsAdjacentFrom(_, _)
SplitGroupsAdjacentFrom(s, i) ==
    IF i > Len(s) THEN <<>>
    ELSE IF GroupEnd(s, i) # 0
         THEN AdjacentBrackets(SubSeq(s, i + 1, GroupEnd(s, i) - 1))
                  \o SplitGroupsAdjacentFrom(s, GroupEnd(s, i) + 1)
         ELSE <<s[i]>> \o SplitGroupsAdjacentFrom(s, i + 1)

\* the indices, in order, of the text whose groups are split and whose runs,
\* those that came of a group included, are then sorted and deduplicated
SortedGroupIndices(text) ==
    parse_citation_indices(DedupGroupsFrom(SplitGroupsAdjacentFrom(text, 1), 1))

\* C16: before the truncation every grouped marker [a, b, c] is rewritten to
\* the individual markers of a, b, c, and afterwards every maximal run of
\* individual markers with nothing between them holds each index once, in
\* ascending order, so that the indices of a grouped marker such as
\* [2, 1, 2] end up deduplicated and sorted.
C16_GroupsSplitSortedDeduplicated ==
    TrimDone =>
        LET canon == CanonicalCitations(input.text)
        IN  /\ NoGroupLeft(canon)
            /\ RunsAscending(canon)
            /\ parse_citation_indices(canon) = SortedGroupIndices(input.text)

\* What does hold: no group is left, and the markers that follow one another
\* directly are sorted and distinct.
CanonicalRunsAscending ==
    TrimDone =>
        /\ NoGroupLeft(CanonicalCitations(input.text))
        /\ RunsAscending(CanonicalCitations(input.text))

\* "[2, 1]" is returned as "[2] [1]": split, with a space, and not sorted
GroupLeftUnsortedReached ==
    /\ TrimDone
    /\ input.text = <<"[", "2", ",", " ", "1", "]">>
    /\ output = Marker(2) \o <<" ">> \o Marker(1)

\* "[2][1][2]" is returned as "[1][2]"
AdjacentMarkersSortedReached ==
    /\ TrimDone
    /\ input.text = Marker(2) \o Marker(1) \o Marker(2)
    /\ output = Marker(1) \o Marker(2)

(***************************************************************************)
(* ArticleTextProcessing.clean_up_citation.  The conversation is an        *)
(* object: the call changes the agent_utterance of its turns in place and  *)
(* returns the reference it was given.                                     *)
(***************************************************************************)
\* s.find(sub): the index, from 0, of the first occurrence, -1 when there is none
str_find(s, sub) ==
    IF \E i \in 1..Len(s) : StartsWithAt(s, i, sub)
    THEN (CHOOSE i \in 1..Len(s) :
              /\ StartsWithAt(s, i, sub)
              /\ \A j \in 1..(i - 1) : ~StartsWithAt(s, j, sub)) - 1
    ELSE -1

\* s[:n]: n characters from the start, or all but the last -n when n < 0
SliceTo(s, n) ==
    IF n >= 0 THEN SubSeq(s, 1, IF n < Len(s) THEN n ELSE Len(s))
    ELSE SubSeq(s, 1, IF Len(s) + n > 0 THEN Len(s) + n ELSE 0)

\* s[: s.find(marker)]
TruncateAt(s, marker) == SliceTo(s, str_find(s, marker))

References == <<"R", "e", "f", "e", "r", "e", "n", "c", "e", "s", ":">>

Sources == <<"S", "o", "u", "r", "c", "e", "s", ":">>

Answer == <<"A", "n", "s", "w", "e", "r", ":">>

\* the two truncations
TruncateAtMarkers(s) == TruncateAt(TruncateAt(s, References), Sources)

\* s.replace("Answer:", "").strip()
StripAnswer(s) == str_strip(str_replace(s, Answer, <<>>))

\* max([int(x) for x in re.findall(r"\[(\d+)\]", s)]), 0 when max() raises on
\* the empty list
MaxRefNum(s) ==
    LET found == parse_citation_indices(s)
    IN  IF found = <<>> THEN 0
        ELSE CHOOSE m \in {found[k] : k \in 1..Len(found)} :
                 \A k \in 1..Len(found) : found[k] <= m

\* for i in range(i, stop): s = s.replace(f"[{i}]", "")
RECURSIVE RemoveMarkersFrom(_, _, _)
RemoveMarkersFrom(s, i, stop) ==
    IF i >= stop THEN s
    ELSE RemoveMarkersFrom(str_replace(s, Marker(i), <<>>), i + 1, stop)

\* the removal of the markers past the search results
RemoveOutOfRange(s, search_results) ==
    IF MaxRefNum(s) > Len(search_results)
    THEN RemoveMarkersFrom(s, Len(search_results), MaxRefNum(s) + 1)
    ELSE s

(***************************************************************************)
(* Inputs of clean_up_citation: conversations of at most MaxTurns turns    *)
(* whose utterances are built from at most MaxCleanPieces pieces in all;   *)
(* every turn has at most MaxSearchResults search results.                 *)
(***************************************************************************)
MaxTurns == 2
MaxCleanPieces == 3
MaxSearchResults == 2

CleanPieces ==
    { <<"a", ".">>, Marker(2), Marker(3), References, Sources, Answer }

SearchResultLists == {[k \in 1..n |-> "result"] : n \in 0..MaxSearchResults}

\* the ways of cutting a sequence into n consecutive parts
RECURSIVE CutsInto(_, _)
CutsInto(ps, n) ==
    IF n = 0 THEN (IF ps = <<>> THEN {<<>>} ELSE {})
    ELSE UNION { {<<SubSeq(ps, 1, k)>> \o rest :
                     rest \in CutsInto(SubSeq(ps, k + 1, Len(ps)), n - 1)} :
                 k \in 0..Len(ps) }

\* the conversations of at most max_turns turns built from at most max_pieces
\* pieces
ConversationsUpTo(max_turns, max_pieces) ==
    UNION { UNION { {[dlg_history |->
                         [t \in 1..n |-> [agent_utterance |-> Flatten(cut[t]),
                                          search_results |-> rs[t]]]] :
                        cut \in CutsInto(ps, n),
                        rs \in [1..n -> SearchResultLists]} :
                    n \in 0..max_turns } :
            ps \in SeqsUpTo(CleanPieces, max_pieces) }

\* the conversation is object 1 of the heap; conv_at_call keeps what it held
\* when the call was made
InitCleanUp ==
    /\ pc = "start"
    /\ op = "clean_up_citation"
    /\ \E c \in ConversationsUpTo(MaxTurns, MaxCleanPieces) :
           /\ heap = << c >>
           /\ input = [conv |-> 1, conv_at_call |-> c]
    /\ frame = <<>>
    /\ output = <<>>

\* the utterance of the turn the loop is at
Utterance == heap[input.conv].dlg_history[frame.turn].agent_utterance

\* turn.agent_utterance = s
SetUtterance(s) ==
    heap' = [heap EXCEPT ![input.conv].dlg_history[frame.turn].agent_utterance = s]

\* for turn in conv.dlg_history: the first turn
CleanBegin ==
    /\ pc = "start"
    /\ op = "clean_up_citation"
    /\ frame' = [turn |-> 1]
    /\ pc' = "turn"
    /\ UNCHANGED <<op, input, heap, output>>

\* the two assignments that cut the utterance at "References:" and "Sources:"
CleanTruncate ==
    /\ pc = "turn"
    /\ op = "clean_up_citation"
    /\ frame.turn <= Len(heap[input.conv].dlg_history)
    /\ SetUtterance(TruncateAtMarkers(Utterance))
    /\ pc' = "truncated"
    /\ UNCHANGED <<op, input, frame, output>>

CleanStripAnswer ==
    /\ pc = "truncated"
    /\ SetUtterance(StripAnswer(Utterance))
    /\ pc' = "stripped"
    /\ UNCHANGED <<op, input, frame, output>>

CleanRemoveOutOfRange ==
    /\ pc = "stripped"
    /\ SetUtterance(RemoveOutOfRange(
                        Utterance, heap[input.conv].dlg_history[frame.turn].search_results))
    /\ pc' = "in_range"
    /\ UNCHANGED <<op, input, frame, output>>

\* the last statement of the loop body, and on to the next turn
CleanTrimSentences ==
    /\ pc = "in_range"
    /\ SetUtterance(remove_uncompleted_sentences_with_citations(Utterance))
    /\ frame' = [frame EXCEPT !.turn = @ + 1]
    /\ pc' = "turn"
    /\ UNCHANGED <<op, input, output>>

\* return conv
CleanReturn ==
    /\ pc = "turn"
    /\ op = "clean_up_citation"
    /\ frame.turn > Len(heap[input.conv].dlg_history)
    /\ output' = input.conv
    /\ pc' = "done"
    /\ UNCHANGED <<op, input, frame, heap>>

NextCleanUp ==
    \/ CleanBegin
    \/ CleanTruncate
    \/ CleanStripAnswer
    \/ CleanRemoveOutOfRange
    \/ CleanTrimSentences
    \/ CleanReturn

SpecCleanUp == InitCleanUp /\ [][NextCleanUp]_vars

(***************************************************************************)
(* What clean_up_citation may cut from an utterance.                       *)
(***************************************************************************)
\* the utterance the turn had when the call was made
OriginalUtterance == input.conv_at_call.dlg_history[frame.turn].agent_utterance

HasTruncationMarker(s) ==
    \E i \in 1..Len(s) : StartsWithAt(s, i, References) \/ StartsWithAt(s, i, Sources)

AfterTruncation == op = "clean_up_citation" /\ pc = "truncated"

\* C17: clean_up_citation truncates an utterance only at an actual
\* "References:" or "Sources:" marker: of an utterance that contains neither,
\* the two truncation steps remove no character.
C17_TruncatesOnlyAtMarkers ==
    (AfterTruncation /\ ~HasTruncationMarker(OriginalUtterance))
        => Utterance = OriginalUtterance

\* What does hold: the truncation leaves a prefix of the utterance, and cuts
\* at most two characters of one without a marker.
TruncationLeavesPrefix ==
    AfterTruncation =>
        /\ Len(Utterance) <= Len(OriginalUtterance)
        /\ Utterance = SubSeq(OriginalUtterance, 1, Len(Utterance))
        /\ ~HasTruncationMarker(OriginalUtterance)
               => Len(Utterance) >= Len(OriginalUtterance) - 2

\* "a.[2]" is cut to "a.["
LastCharactersCutReached ==
    /\ AfterTruncation
    /\ OriginalUtterance = <<"a", ".">> \o Marker(2)
    /\ Utterance = <<"a", ".", "[">>

\* the occurrences of the marker [i] in a text
CountMarker(s, i) ==
    Cardinality({k \in 1..Len(FindMarkersFrom(s, 1)) : FindMarkersFrom(s, 1)[k] = Marker(i)})

RemovalStep == op = "clean_up_citation" /\ pc = "stripped" /\ pc' = "in_range"

SearchResultsOfTurn == heap[input.conv].dlg_history[frame.turn].search_results

\* C18: the out-of-range removal deletes a marker [i] only when i is greater
\* than the number of search results of the turn: every marker [i] with
\* 1 <= i <= len(search_results) is kept by that step.
C18_InRangeMarkersKept ==
    [][RemovalStep =>
          \A i \in 0..Len(SearchResultsOfTurn) :
              CountMarker(Utterance', i) >= CountMarker(Utterance, i)]_vars

\* What does hold: the markers below the number of search results are kept.
MarkersBelowLastResultKept ==
    [][RemovalStep =>
          \A i \in 0..(Len(SearchResultsOfTurn) - 1) :
              CountMarker(Utterance', i) >= CountMarker(Utterance, i)]_vars

\* two search results and "[2][3]a.": after the removal step nothing is left
\* of "[2][3]", the marker [2] is deleted with [3]
LastInRangeMarkerDeletedReached ==
    /\ op = "clean_up_citation"
    /\ pc = "in_range"
    /\ OriginalUtterance = Marker(2) \o Marker(3) \o <<"a", ".">>
    /\ Len(SearchResultsOfTurn) = 2
    /\ Utterance = <<>>
====
